---------------------------- MODULE Spec2Model ----------------------------
(***************************************************************************)
(* Model of the taro job-execution runtime: the execution-state model, the *)
(* lifecycle ledger and ExecutionError of taro/jobs/execution.py, the      *)
(* runner (RunnerJobInstance) that drives one job instance through them,   *)
(* the observers and warnings of taro/jobs/warning.py, the process         *)
(* execution of taro/jobs/program.py and the persistence facade of         *)
(* taro/jobs/persistence.py.                                               *)
(***************************************************************************)
EXTENDS Integers, Sequences, FiniteSets

VARIABLES
    lifecycle,              \* ExecutionLifecycleManagement._state_changes: <<[state, changed]>>
    copied,                 \* the last copy made of the lifecycle, and the ledger it was made from
    now,                    \* the next value utc_now() returns
    calls,                  \* the new_state argument of every set_state call so far
    prev,                   \* the ledger as it was before the last set_state call
    args,                   \* the arguments given to ExecutionError(...)
    err,                    \* what ExecutionError(...) produced: the object or the error raised
    pc,                     \* position of the driving thread in RunnerJobInstance.run
    latch,                  \* the gate: "none" | "unset" | "set"
    latch_wait_state,       \* the state the gate is installed at
    stopped_or_interrupted, \* the sticky flag stop()/interrupt() set
    stop_called_at,         \* pc and gate at the first stop()/interrupt() call
    released_at,            \* pc at the first release of the gate
    exec_error,             \* JobInstance.exec_error
    executed_count,         \* calls of Execution.execute()
    outcome,                \* how execute() ended
    state_observers,        \* the registered state observers, in registration order
    notified,               \* per observer: the snapshots it received since it registered
    joined,                 \* per observer: the transitions recorded before it registered
    transitions,            \* the snapshot of every recorded transition
    warnings,               \* JobInstance.warnings: warning name -> occurrence count
    warned,                 \* every Warn given to add_warning, in order
    output_observers,       \* ProgramExecution._output_observers, a list
    reader_pc,              \* position of the Output-Reader thread in _read_output
    line_no,                \* the lines read from the process so far
    obs_index,              \* the list iterator of _notify_output_observers
    delivered,              \* per observer: its calls with the current line
    status,                 \* ProgramExecution._status
    mutated,                \* the list changed since the current line was read
    remove_error,           \* what the last remove_output_observer raised
    watchdog,               \* the _ExecTimeWarning attached to the instance: name and time
    timer,                  \* _ExecTimeWarning.timer and the position of its thread
    elapsed,                \* the seconds gone since the timer was started
    updated,                \* the snapshots given to the watchdog's state_update so far
    update_error,           \* what a call of the watchdog's state_update raised
    matcher,                \* the _OutputMatchesWarning attached to the instance: id and regex
    output,                 \* the lines given to the matcher's output_update so far
    cfg,                    \* taro.cfg: the persistence_* values
    persistence,            \* the PersistenceHolder _persistence: type name -> cached instance
    open_instances,         \* the backend instances instantiated and not yet closed
    peak_open,              \* the most instances that were ever open at once
    db,                     \* per backend type: the jobs its store holds, oldest first
    stored,                 \* per backend type: the jobs stored under the present retention
                            \* settings and not removed by id
    job_seq,                \* the jobs handed to store_job so far
    result,                 \* the last facade call and what it raised
    exec_pc,                \* position of the thread that called ProgramExecution.execute
    popen,                  \* ProgramExecution._popen and its process: "None" | "running" | "exited"
    launch_error,           \* what Popen(...) raised
    exit_code,              \* the code the process exited with
    ret_code,               \* the local ret_code of execute
    waited,                 \* _popen.wait() has returned
    stopped,                \* ProgramExecution._stopped
    interrupted,            \* ProgramExecution._interrupted
    signalled,              \* terminate() reached the running process
    executed,               \* how execute() ended
    external,               \* what was raised from outside inside the try block of execute
    holder,                 \* _persistence as the threads see it: <<[key, instance]>> in insertion order
    instances,              \* every instance _load_persistence created: its class, and whether it is closed
    thread                  \* per thread: its position in the facade call it is making

vars == <<lifecycle, copied, now, calls, prev, args, err, pc, latch, latch_wait_state,
          stopped_or_interrupted, stop_called_at, released_at, exec_error, executed_count, outcome,
          state_observers, notified, joined, transitions, warnings, warned,
          output_observers, reader_pc, line_no, obs_index, delivered, status, mutated,
          remove_error, watchdog, timer, elapsed, updated,
          update_error, matcher, output, cfg, persistence, open_instances, peak_open, db, stored,
          job_seq, result, exec_pc, popen, launch_error, exit_code, ret_code, waited,
          stopped, interrupted, signalled, executed, external, holder, instances, thread>>

ledger_vars == <<lifecycle, copied, now, calls, prev>>
error_vars == <<args, err>>
holder_vars == <<holder, instances, thread>>
notify_vars == <<state_observers, notified, joined, transitions>>
warning_vars == <<warnings, warned>>
output_vars == <<output_observers, reader_pc, line_no, obs_index, delivered, status, mutated,
                 remove_error>>
watchdog_vars == <<watchdog, timer, elapsed, updated, update_error>>
matcher_vars == <<matcher, output>>
persistence_vars == <<cfg, persistence, open_instances, peak_open, db, stored, job_seq,
                      result>>
program_vars == <<exec_pc, popen, launch_error, exit_code, ret_code, waited, stopped,
                  interrupted, signalled, executed, external>>
other_vars == <<holder_vars, warning_vars, output_vars, watchdog_vars, matcher_vars, persistence_vars,
                program_vars>>
runner_vars == <<pc, latch, latch_wait_state, stopped_or_interrupted, stop_called_at,
                 released_at,
                 exec_error, executed_count, outcome>>
instance_vars == <<ledger_vars, error_vars, holder_vars, runner_vars, notify_vars, warning_vars,
                   watchdog_vars, matcher_vars, persistence_vars, program_vars>>

-----------------------------------------------------------------------------
(* Bounds *)

\* set_state calls made on the free-standing ledger
MaxCalls == 3

\* the longest time, in seconds, a watchdog is given
MaxTime == 2

\* the lines given to an output matcher
MaxOutput == 2

\* the characters of the longest output line
MaxLineLen == 2

\* the characters of the longest pattern
MaxPattern == 2

\* the jobs handed to store_job
MaxJobs == 2

\* the largest persistence_max_records configured
MaxRecords == 1

\* Lines the process writes
MaxLines == 2

\* Entries of the output observer list
MaxRegistered == 2

-----------------------------------------------------------------------------
(* taro/jobs/execution.py: ExecutionStateGroup, ExecutionState *)

ExecutionStateGroup ==
    {"BEFORE_EXECUTION", "EXECUTING", "TERMINAL", "NOT_COMPLETED", "NOT_EXECUTED", "FAILURE"}

ExecutionState ==
    {"NONE", "CREATED", "PENDING", "WAITING", "TRIGGERED", "STARTED", "RUNNING",
     "COMPLETED", "STOPPED", "INTERRUPTED", "DISABLED", "CANCELLED", "SKIPPED",
     "SUSPENDED", "START_FAILED", "FAILED", "ERROR"}

\* groups with STOPPED counted as a failure too
groups_stopped_failure(s) ==
    CASE s = "NONE" -> {}
      [] s \in {"CREATED", "PENDING", "WAITING"} -> {"BEFORE_EXECUTION"}
      [] s \in {"TRIGGERED", "STARTED", "RUNNING"} -> {"EXECUTING"}
      [] s = "COMPLETED" -> {"TERMINAL"}
      [] s = "STOPPED" -> {"TERMINAL", "NOT_COMPLETED", "FAILURE"}
      [] s = "INTERRUPTED" -> {"TERMINAL", "NOT_COMPLETED"}
      [] s \in {"DISABLED", "CANCELLED", "SKIPPED", "SUSPENDED"} -> {"TERMINAL", "NOT_EXECUTED"}
      [] s \in {"START_FAILED", "FAILED", "ERROR"} -> {"TERMINAL", "FAILURE"}

\* groups with RUNNING given COMPLETED's set
groups_running_terminal(s) ==
    CASE s = "NONE" -> {}
      [] s \in {"CREATED", "PENDING", "WAITING"} -> {"BEFORE_EXECUTION"}
      [] s \in {"TRIGGERED", "STARTED"} -> {"EXECUTING"}
      [] s \in {"RUNNING", "COMPLETED"} -> {"TERMINAL"}
      [] s \in {"STOPPED", "INTERRUPTED"} -> {"TERMINAL", "NOT_COMPLETED"}
      [] s \in {"DISABLED", "CANCELLED", "SKIPPED", "SUSPENDED"} -> {"TERMINAL", "NOT_EXECUTED"}
      [] s \in {"START_FAILED", "FAILED", "ERROR"} -> {"TERMINAL", "FAILURE"}

groups(s) ==
    CASE s = "NONE" -> {}
      [] s \in {"CREATED", "PENDING", "WAITING"} -> {"BEFORE_EXECUTION"}
      [] s \in {"TRIGGERED", "STARTED", "RUNNING"} -> {"EXECUTING"}
      [] s = "COMPLETED" -> {"TERMINAL"}
      [] s \in {"STOPPED", "INTERRUPTED"} -> {"TERMINAL", "NOT_COMPLETED"}
      [] s \in {"DISABLED", "CANCELLED", "SKIPPED", "SUSPENDED"} -> {"TERMINAL", "NOT_EXECUTED"}
      [] s \in {"START_FAILED", "FAILED", "ERROR"} -> {"TERMINAL", "FAILURE"}

is_before_execution(s) == "BEFORE_EXECUTION" \in groups(s)

is_executing(s) == "EXECUTING" \in groups(s)

is_terminal(s) == "TERMINAL" \in groups(s)

is_failure(s) == "FAILURE" \in groups(s)

-----------------------------------------------------------------------------
(* Python values *)

\* Python's None where a state is expected
NoState == "None"

None == [type |-> "NoneType"]

\* The errors an execution raises that are no ExecutionError
UnexpectedErrors == {[type |-> "Exception", id |-> "e1"], [type |-> "Exception", id |-> "e2"]}

Messages == {"Unexpected error", "failed"}

\* **kwargs of ExecutionError(...)
NoKwargs == <<>>

Kwargs == {NoKwargs, <<"code">>}

\* The output observers a caller may register: an ExecutionOutputObserver, a
\* callable, a callable that raises an Exception, an ExecutionOutputObserver
\* that raises SystemExit, and an object that is neither
OutputObservers == {"listener", "callback", "failing", "exiting", "other"}

\* The state observers a caller may register
StateObservers == {"o1", "o2"}

-----------------------------------------------------------------------------
(* taro/jobs/execution.py: ExecutionError *)

ValueError(exec_state) ==
    [type |-> "ValueError", args |-> <<"exec_state must be a failure", exec_state>>]

\* The constructor with its check left out
NewExecutionError_unchecked(message, exec_state, unexpected_error, kwargs) ==
    [type |-> "ExecutionError", message |-> message, exec_state |-> exec_state,
     unexpected_error |-> unexpected_error, params |-> kwargs]

\* The constructor with its check negated
NewExecutionError_inverted(message, exec_state, unexpected_error, kwargs) ==
    IF is_failure(exec_state)
    THEN ValueError(exec_state)
    ELSE [type |-> "ExecutionError", message |-> message, exec_state |-> exec_state,
          unexpected_error |-> unexpected_error, params |-> kwargs]

NewExecutionError(message, exec_state, unexpected_error, kwargs) ==
    IF ~is_failure(exec_state)
    THEN ValueError(exec_state)
    ELSE [type |-> "ExecutionError", message |-> message, exec_state |-> exec_state,
          unexpected_error |-> unexpected_error, params |-> kwargs]

\* from_unexpected_error that does not pass the error on
from_unexpected_error_dropped(e) ==
    NewExecutionError("Unexpected error", "ERROR", None, NoKwargs)

from_unexpected_error(e) == NewExecutionError("Unexpected error", "ERROR", e, NoKwargs)

-----------------------------------------------------------------------------
(* taro/jobs/execution.py: ExecutionLifecycle, ExecutionLifecycleManagement *)

\* OrderedDict.keys()
keys(d) == [i \in 1..Len(d) |-> d[i].state]

\* dict.__contains__
has_key(d, k) == \E i \in 1..Len(d) : d[i].state = k

\* __setitem__ that puts a new key first
setitem_front(d, k, v) ==
    IF has_key(d, k)
    THEN [i \in 1..Len(d) |-> IF d[i].state = k THEN [state |-> k, changed |-> v] ELSE d[i]]
    ELSE <<[state |-> k, changed |-> v]>> \o d

\* OrderedDict.__setitem__: a new key is appended, an existing key keeps its
\* place and takes the new value
setitem(d, k, v) ==
    IF has_key(d, k)
    THEN [i \in 1..Len(d) |-> IF d[i].state = k THEN [state |-> k, changed |-> v] ELSE d[i]]
    ELSE Append(d, [state |-> k, changed |-> v])

\* state() that reads the first entry
state_first(lc) == IF Len(lc) = 0 THEN "NONE" ELSE lc[1].state

state(lc) == IF Len(lc) = 0 THEN "NONE" ELSE lc[Len(lc)].state

\* states() in reverse order
states_reversed(lc) == [i \in 1..Len(lc) |-> lc[Len(lc) + 1 - i].state]

states(lc) == keys(lc)

\* ExecutionLifecycle.changed: the timestamp of a recorded state
changed(lc, s) == lc[CHOOSE i \in 1..Len(lc) : lc[i].state = s].changed

\* set_state that reports a change whatever it did
set_state_returns_always(lc, new_state) == TRUE

\* The return value of set_state
set_state_returns(lc, new_state) ==
    ~(new_state = NoState \/ new_state = "NONE" \/ state(lc) = new_state)

\* set_state with the comparison to the current state negated
set_state_inverted(lc, new_state, t) ==
    IF new_state = NoState \/ new_state = "NONE" \/ state(lc) # new_state
    THEN lc
    ELSE setitem(lc, new_state, t)

\* The ledger after set_state(new_state) at time t
set_state(lc, new_state, t) ==
    IF new_state = NoState \/ new_state = "NONE" \/ state(lc) = new_state
    THEN lc
    ELSE setitem(lc, new_state, t)

\* utc_now() is read only when set_state records
tick(lc, new_state, t) == IF set_state_returns(lc, new_state) THEN t + 1 ELSE t

-----------------------------------------------------------------------------
(* The ledger on its own: set_state called with any arguments on a          *)
(* lifecycle constructed empty                                              *)

\* ProgramExecution.__init__, no process launched
NoOutput ==
    /\ output_observers = <<>>
    /\ reader_pc = "read"
    /\ line_no = 0
    /\ obs_index = 0
    /\ delivered = [o \in OutputObservers |-> 0]
    /\ status = 0
    /\ mutated = FALSE
    /\ remove_error = None

NoWatchdog ==
    /\ watchdog = None
    /\ timer = "None"
    /\ elapsed = 0
    /\ updated = 0
    /\ update_error = None

NoMatcher ==
    /\ matcher = None
    /\ output = <<>>

\* The backend plugins found under taro.jobs.db, and a name none of them has
Installed == {"sqlite", "other"}

Types == Installed \cup {"missing"}

\* The cache is empty and nothing was stored
NoBackend ==
    /\ cfg = [persistence_enabled |-> FALSE, persistence_type |-> "sqlite",
              persistence_max_records |-> -1, persistence_max_age |-> ""]
    /\ persistence = [key \in {} |-> ""]
    /\ open_instances = 0
    /\ peak_open = 0
    /\ db = [type_ \in Installed |-> <<>>]
    /\ stored = [type_ \in Installed |-> <<>>]
    /\ job_seq = 0
    /\ result = [op |-> "none", raised |-> None]

Threads == {"t1", "t2"}

\* A thread that is in no facade call
IdleThread == [pc |-> "idle", op |-> "none", key |-> "", instance |-> 0, pos |-> 0,
               size |-> 0, ops |-> 0, raised |-> None]

\* No thread has called the facade
NoThreads ==
    /\ holder = <<>>
    /\ instances = <<>>
    /\ thread = [t \in Threads |-> IdleThread]

\* ProgramExecution.__init__, execute() not yet called
NoProgram ==
    /\ exec_pc = "idle"
    /\ popen = "None"
    /\ launch_error = None
    /\ exit_code = 0
    /\ ret_code = 0
    /\ waited = FALSE
    /\ stopped = FALSE
    /\ interrupted = FALSE
    /\ signalled = FALSE
    /\ executed = [kind |-> "none"]
    /\ external = "none"

Idle ==
    /\ pc = "idle"
    /\ latch = "none"
    /\ latch_wait_state = "NONE"
    /\ stopped_or_interrupted = FALSE
    /\ stop_called_at = [pc |-> "never", latch |-> "none"]
    /\ released_at = "never"
    /\ exec_error = None
    /\ executed_count = 0
    /\ outcome = [kind |-> "none"]
    /\ state_observers = <<>>
    /\ notified = [o \in StateObservers |-> <<>>]
    /\ joined = [o \in StateObservers |-> 0]
    /\ warnings = [n \in {} |-> 0]
    /\ warned = <<>>
    /\ NoOutput
    /\ NoWatchdog
    /\ NoMatcher
    /\ NoBackend
    /\ NoThreads
    /\ NoProgram

NoError ==
    /\ args = [message |-> "", exec_state |-> "NONE", unexpected_error |-> None,
               kwargs |-> NoKwargs]
    /\ err = None

InitLedger ==
    /\ transitions = <<>>
    /\ lifecycle = <<>>
    /\ copied = None
    /\ now = 0
    /\ calls = <<>>
    /\ prev = <<>>
    /\ NoError
    /\ Idle

SetState(new_state) ==
    /\ Len(calls) < MaxCalls
    /\ lifecycle' = set_state(lifecycle, new_state, now)
    /\ now' = tick(lifecycle, new_state, now)
    /\ calls' = Append(calls, new_state)
    /\ prev' = lifecycle
    /\ UNCHANGED <<copied, error_vars, runner_vars, notify_vars, other_vars>>

NextLedger == \E s \in ExecutionState \cup {NoState} : SetState(s)

SpecLedger == InitLedger /\ [][NextLedger]_vars

-----------------------------------------------------------------------------
(* Copies of the lifecycle: copy.copy and copy.deepcopy of the ledger       *)

\* ExecutionLifecycle.state_changes: the (state, changed) pairs in order
state_changes(lc) == [i \in 1..Len(lc) |-> <<lc[i].state, lc[i].changed>>]

RECURSIVE OrderedDict(_)
\* OrderedDict(pairs): the pairs are inserted one after another
OrderedDict(pairs) ==
    IF Len(pairs) = 0
    THEN <<>>
    ELSE setitem(OrderedDict(SubSeq(pairs, 1, Len(pairs) - 1)),
                 pairs[Len(pairs)][1], pairs[Len(pairs)][2])

\* ExecutionLifecycle(*state_changes)
ExecutionLifecycle(pairs) == OrderedDict(pairs)

\* __copy__: the new object's _state_changes is the original's dict itself
copy(lc) ==
    [made_with |-> "copy", shares |-> TRUE, own |-> ExecutionLifecycle(<<>>),
     original |-> lc]

\* __deepcopy__: a new object built from the original's pairs
deepcopy(lc) ==
    [made_with |-> "deepcopy", shares |-> FALSE, own |-> ExecutionLifecycle(state_changes(lc)),
     original |-> lc]

\* The _state_changes a copy reads: the original's present dict when it is
\* shared, its own otherwise
copied_state_changes ==
    IF copied.shares THEN lifecycle ELSE copied.own

Copy ==
    /\ copied' = copy(lifecycle)
    /\ UNCHANGED <<lifecycle, now, calls, prev, error_vars, runner_vars, notify_vars,
                   other_vars>>

DeepCopy ==
    /\ copied' = deepcopy(lifecycle)
    /\ UNCHANGED <<lifecycle, now, calls, prev, error_vars, runner_vars, notify_vars,
                   other_vars>>

NextCopy ==
    \/ \E s \in ExecutionState \cup {NoState} : SetState(s)
    \/ Copy
    \/ DeepCopy

SpecCopy == InitLedger /\ [][NextCopy]_vars

-----------------------------------------------------------------------------
(* ExecutionError on its own: the constructor and from_unexpected_error     *)
(* applied to any arguments                                                 *)

InitError ==
    /\ args \in [message : Messages, exec_state : ExecutionState,
                 unexpected_error : UnexpectedErrors \cup {None}, kwargs : Kwargs]
    /\ err = None
    /\ transitions = <<>>
    /\ lifecycle = <<>>
    /\ copied = None
    /\ now = 0
    /\ calls = <<>>
    /\ prev = <<>>
    /\ Idle

Construct ==
    /\ err = None
    /\ err' = NewExecutionError(args.message, args.exec_state, args.unexpected_error,
                                args.kwargs)
    /\ UNCHANGED <<args, ledger_vars, runner_vars, notify_vars, other_vars>>

FromUnexpectedError ==
    /\ err = None
    /\ args.unexpected_error # None
    /\ err' = from_unexpected_error(args.unexpected_error)
    /\ args' = [message |-> "Unexpected error", exec_state |-> "ERROR",
                unexpected_error |-> args.unexpected_error, kwargs |-> NoKwargs]
    /\ UNCHANGED <<ledger_vars, runner_vars, notify_vars, other_vars>>

NextError == Construct \/ FromUnexpectedError

SpecError == InitError /\ [][NextError]_vars

-----------------------------------------------------------------------------
(* The runner: RunnerJobInstance driving one instance                       *)

\* States execute() returns: a failure is raised, never returned
ReturnedStates == {s \in ExecutionState : is_terminal(s) /\ ~is_failure(s)}

\* States execute() gives to the ExecutionError it raises (INTERRUPTED: the
\* process adapter's 'System exit')
RaisedStates == {s \in ExecutionState : is_failure(s)} \cup {"INTERRUPTED"}

\* JobInstance.create_info: the snapshot handed to observers
create_info(lc, error) == [lifecycle |-> lc, exec_error |-> error]

\* The constructor records CREATED
Init ==
    /\ transitions = <<create_info(set_state(<<>>, "CREATED", 0), None)>>
    /\ lifecycle = set_state(<<>>, "CREATED", 0)
    /\ copied = None
    /\ now = tick(<<>>, "CREATED", 0)
    /\ calls = <<"CREATED">>
    /\ prev = <<>>
    /\ NoError
    /\ Idle

\* The snapshot goes to every registered observer before control returns
notify_state_observers(job_info) ==
    /\ transitions' = Append(transitions, job_info)
    /\ notified' = [o \in StateObservers |->
                       IF \E i \in 1..Len(state_observers) : state_observers[i] = o
                       THEN Append(notified[o], job_info)
                       ELSE notified[o]]
    /\ UNCHANGED <<state_observers, joined>>

\* One recorded transition: the ledger entry and, when given, the error;
\* a transition that records nothing notifies nobody
state_change(new_state, error) ==
    /\ lifecycle' = set_state(lifecycle, new_state, now)
    /\ now' = tick(lifecycle, new_state, now)
    /\ calls' = Append(calls, new_state)
    /\ prev' = lifecycle
    /\ UNCHANGED copied
    /\ exec_error' = IF error = None THEN exec_error ELSE error
    /\ IF set_state_returns(lifecycle, new_state)
       THEN notify_state_observers(create_info(lifecycle', exec_error'))
       ELSE UNCHANGED notify_vars

create_latch(wait_state) ==
    /\ pc = "idle"
    /\ latch = "none"
    /\ is_before_execution(wait_state)
    /\ latch' = "unset"
    /\ latch_wait_state' = wait_state
    /\ UNCHANGED <<ledger_vars, notify_vars, error_vars, other_vars, released_at, pc, stopped_or_interrupted, stop_called_at,
                   exec_error, executed_count, outcome>>

\* latch(): releasing the gate
release ==
    /\ latch # "none"
    /\ latch' = "set"
    /\ released_at' = IF released_at = "never" THEN pc ELSE released_at
    /\ UNCHANGED <<ledger_vars, notify_vars, error_vars, other_vars, pc, latch_wait_state, stopped_or_interrupted,
                   stop_called_at, exec_error, executed_count, outcome>>

request_stop ==
    /\ stopped_or_interrupted' = TRUE
    /\ stop_called_at' = IF stop_called_at.pc = "never"
                         THEN [pc |-> pc, latch |-> latch]
                         ELSE stop_called_at
    /\ UNCHANGED <<ledger_vars, notify_vars, error_vars, other_vars, released_at, pc, latch, latch_wait_state, exec_error,
                   executed_count, outcome>>

stop == request_stop

interrupt == request_stop

\* Thread(target=instance.run).start(), or runner.run
start ==
    /\ pc = "idle"
    /\ pc' = "start"
    /\ UNCHANGED <<ledger_vars, notify_vars, error_vars, other_vars, released_at, latch, latch_wait_state, stopped_or_interrupted,
                   stop_called_at, exec_error, executed_count, outcome>>

\* A stop requested before the run starts skips the gate
run_gate_check ==
    /\ pc = "start"
    /\ pc' = IF latch # "none" /\ ~stopped_or_interrupted THEN "gate" ELSE "checkpoint"
    /\ UNCHANGED <<ledger_vars, notify_vars, error_vars, other_vars, released_at, latch, latch_wait_state, stopped_or_interrupted,
                   stop_called_at, exec_error, executed_count, outcome>>

\* The gate's state is recorded, then the thread blocks
run_gate_enter ==
    /\ pc = "gate"
    /\ state_change(latch_wait_state, None)
    /\ pc' = "blocked"
    /\ UNCHANGED <<error_vars, other_vars, released_at, latch, latch_wait_state, stopped_or_interrupted,
                   stop_called_at, executed_count, outcome>>

\* Blocked until the gate is released; the stop flag is seen while blocked
run_gate_wait ==
    /\ pc = "blocked"
    /\ latch = "set" \/ stopped_or_interrupted
    /\ pc' = "checkpoint"
    /\ UNCHANGED <<ledger_vars, notify_vars, error_vars, other_vars, released_at, latch, latch_wait_state, stopped_or_interrupted,
                   stop_called_at, exec_error, executed_count, outcome>>

\* The pre-execution checkpoint
run_checkpoint ==
    /\ pc = "checkpoint"
    /\ IF stopped_or_interrupted
       THEN /\ state_change("CANCELLED", None)
            /\ pc' = "done"
       ELSE /\ pc' = "pre_exec"
            /\ UNCHANGED <<ledger_vars, notify_vars, exec_error>>
    /\ UNCHANGED <<error_vars, other_vars, released_at, latch, latch_wait_state, stopped_or_interrupted,
                   stop_called_at, executed_count, outcome>>

run_running ==
    /\ pc = "pre_exec"
    /\ state_change("RUNNING", None)
    /\ pc' = "call"
    /\ UNCHANGED <<error_vars, other_vars, released_at, latch, latch_wait_state, stopped_or_interrupted,
                   stop_called_at, executed_count, outcome>>

run_execute ==
    /\ pc = "call"
    /\ executed_count' = executed_count + 1
    /\ pc' = "executing"
    /\ UNCHANGED <<ledger_vars, notify_vars, error_vars, other_vars, released_at, latch, latch_wait_state, stopped_or_interrupted,
                   stop_called_at, exec_error, outcome>>

\* execute() returned new_state
run_returned(new_state) ==
    /\ pc = "executing"
    /\ outcome' = [kind |-> "returned", state |-> new_state]
    /\ state_change(new_state, None)
    /\ pc' = "done"
    /\ UNCHANGED <<error_vars, other_vars, released_at, latch, latch_wait_state, stopped_or_interrupted,
                   stop_called_at, executed_count>>

\* execute() raised e: an ExecutionError is recorded as it is, anything else
\* is wrapped first
run_raised(e) ==
    /\ pc = "executing"
    /\ outcome' = [kind |-> "raised", error |-> e]
    /\ LET error == IF e.type = "ExecutionError" THEN e ELSE from_unexpected_error(e)
       IN  IF error.type = "ExecutionError"
           THEN /\ state_change(error.exec_state, error)
                /\ pc' = "done"
           ELSE /\ pc' = "crashed"
                /\ UNCHANGED <<ledger_vars, notify_vars, exec_error>>
    /\ UNCHANGED <<error_vars, other_vars, released_at, latch, latch_wait_state, stopped_or_interrupted,
                   stop_called_at, executed_count>>

\* What execute() raises: an ExecutionError it built, the ValueError of
\* building one with a state that is no failure, or an unexpected error
Raised ==
    {NewExecutionError("failed", s, None, NoKwargs) : s \in RaisedStates} \cup UnexpectedErrors

run ==
    \/ run_gate_check
    \/ run_gate_enter
    \/ run_gate_wait
    \/ run_checkpoint
    \/ run_running
    \/ run_execute
    \/ \E s \in ReturnedStates : run_returned(s)
    \/ \E e \in Raised : run_raised(e)

Next ==
    \/ \E s \in ExecutionState : create_latch(s)
    \/ release
    \/ stop
    \/ interrupt
    \/ start
    \/ run

Spec == Init /\ [][Next]_vars

\* Registration is set-like: an observer already registered stays as it is
add_state_observer(o) ==
    /\ IF \E i \in 1..Len(state_observers) : state_observers[i] = o
       THEN UNCHANGED <<state_observers, notified, joined>>
       ELSE /\ state_observers' = Append(state_observers, o)
            /\ notified' = [notified EXCEPT ![o] = <<>>]
            /\ joined' = [joined EXCEPT ![o] = Len(transitions)]
    /\ UNCHANGED <<ledger_vars, transitions, error_vars, other_vars, runner_vars>>

\* De-registration of an observer that is not registered changes nothing
remove_state_observer(o) ==
    /\ state_observers' = SelectSeq(state_observers, LAMBDA x : x # o)
    /\ notified' = [notified EXCEPT ![o] = <<>>]
    /\ joined' = [joined EXCEPT ![o] = 0]
    /\ UNCHANGED <<ledger_vars, transitions, error_vars, other_vars, runner_vars>>

NextObservers ==
    \/ Next
    \/ \E o \in StateObservers : add_state_observer(o)
    \/ \E o \in StateObservers : remove_state_observer(o)

SpecObservers == Init /\ [][NextObservers]_vars

\* The driving thread, once started, is scheduled; execute() ends
FairSpec == Spec /\ WF_vars(run)

-----------------------------------------------------------------------------
(* taro/jobs/program.py: the output observers of ProgramExecution and the   *)
(* Output-Reader thread                                                     *)

isinstance_ExecutionOutputObserver(o) == o \in {"listener", "exiting"}

callable(o) == o \in {"callback", "failing"}

\* What a call of the observer raises
raises(o) ==
    CASE o = "failing" -> "Exception"
      [] o = "exiting" -> "SystemExit"
      [] OTHER -> "none"

\* except Exception: SystemExit is no Exception
caught_Exception(exc) == exc = "Exception"

\* except BaseException
caught(exc) == exc \in {"Exception", "SystemExit"}

\* list.remove: the first occurrence
list_remove(l, x) ==
    LET i == CHOOSE k \in 1..Len(l) : l[k] = x /\ \A j \in 1..(k - 1) : l[j] # x
    IN  [k \in 1..(Len(l) - 1) |-> IF k < i THEN l[k] ELSE l[k + 1]]

count(l, x) == Cardinality({k \in 1..Len(l) : l[k] = x})

add_output_observer(observer) ==
    /\ Len(output_observers) < MaxRegistered
    /\ output_observers' = Append(output_observers, observer)
    /\ mutated' = TRUE
    /\ UNCHANGED <<instance_vars, reader_pc, line_no, obs_index, delivered, status,
                   remove_error>>

remove_output_observer(observer) ==
    /\ IF count(output_observers, observer) > 0
       THEN /\ output_observers' = list_remove(output_observers, observer)
            /\ mutated' = TRUE
            /\ remove_error' = None
       ELSE /\ remove_error' = [type |-> "ValueError", args |-> <<"list.remove(x): x not in list">>]
            /\ UNCHANGED <<output_observers, mutated>>
    /\ UNCHANGED <<instance_vars, reader_pc, line_no, obs_index, delivered, status>>

\* _read_output: the next line of the stream
read_line ==
    /\ reader_pc = "read"
    /\ line_no < MaxLines
    /\ line_no' = line_no + 1
    /\ status' = line_no + 1
    /\ obs_index' = 0
    /\ mutated' = FALSE
    /\ reader_pc' = "notify"
    /\ delivered' = [o \in OutputObservers |-> 0]
    /\ UNCHANGED <<instance_vars, output_observers, remove_error>>

\* _read_output: the stream is closed
read_end ==
    /\ reader_pc = "read"
    /\ reader_pc' = "finished"
    /\ UNCHANGED <<instance_vars, output_observers, line_no, obs_index, delivered, status,
                   mutated, remove_error>>

\* _notify_output_observers: one turn of the loop over the list, or its end
notify_output_observer ==
    /\ reader_pc = "notify"
    /\ IF obs_index < Len(output_observers)
       THEN LET observer == output_observers[obs_index + 1]
                called == isinstance_ExecutionOutputObserver(observer) \/ callable(observer)
            IN  /\ obs_index' = obs_index + 1
                /\ delivered' = IF called
                                THEN [delivered EXCEPT ![observer] = @ + 1]
                                ELSE delivered
                /\ reader_pc' = IF called /\ raises(observer) # "none" /\ ~caught(raises(observer))
                                THEN "crashed"
                                ELSE "notify"
       ELSE /\ reader_pc' = "read"
            /\ UNCHANGED <<obs_index, delivered>>
    /\ UNCHANGED <<instance_vars, output_observers, line_no, status, mutated, remove_error>>

NextOutput ==
    \/ \E o \in OutputObservers : add_output_observer(o)
    \/ \E o \in OutputObservers : remove_output_observer(o)
    \/ read_line
    \/ read_end
    \/ notify_output_observer

SpecOutput == InitLedger /\ [][NextOutput]_vars

-----------------------------------------------------------------------------
(* taro/jobs/warning.py: the elapsed-time watchdog _ExecTimeWarning, its     *)
(* Timer thread and the instance it is attached to                          *)

Warn(name, params) == [name |-> name, params |-> params]

\* The instance counts the warning under its name: 1 the first time
add_warning(warn) ==
    /\ warnings' = [n \in DOMAIN warnings \cup {warn.name} |->
                       IF n # warn.name THEN warnings[n]
                       ELSE IF n \in DOMAIN warnings THEN warnings[n] + 1 ELSE 1]
    /\ warned' = Append(warned, warn)

\* exec_time_exceeded(job_instance, warning_name, time): the watchdog becomes
\* a state observer of the instance
exec_time_exceeded(warning_name, time) ==
    /\ watchdog = None
    /\ watchdog' = [name |-> warning_name, time |-> time]
    /\ updated' = Len(transitions)
    /\ UNCHANGED <<ledger_vars, error_vars, holder_vars, runner_vars, notify_vars, warning_vars,
                   output_vars, matcher_vars, persistence_vars, program_vars, update_error,
                   timer, elapsed>>

\* Timer.cancel(): only a timer still waiting is stopped by it
cancel(t) == IF t = "waiting" THEN "cancelled" ELSE t

AssertionError == [type |-> "AssertionError"]

\* The driving thread hands the watchdog the snapshot of a transition it has
\* recorded; `assert self.timer is None` fails when a timer exists, and the
\* call ends there
state_update ==
    /\ watchdog # None
    /\ updated < Len(transitions)
    /\ updated' = updated + 1
    /\ LET job_info == transitions[updated + 1]
       IN  /\ timer' = IF is_executing(state(job_info.lifecycle))
                       THEN IF timer = "None" THEN "waiting" ELSE timer
                       ELSE IF is_terminal(state(job_info.lifecycle)) /\ timer # "None"
                            THEN cancel(timer)
                            ELSE timer
           /\ update_error' = IF is_executing(state(job_info.lifecycle)) /\ timer # "None"
                              THEN AssertionError
                              ELSE update_error
    /\ UNCHANGED <<ledger_vars, error_vars, holder_vars, runner_vars, notify_vars, warning_vars,
                   output_vars, matcher_vars, persistence_vars, program_vars, watchdog, elapsed>>

\* One second goes by while the timer waits
sleep ==
    /\ timer = "waiting"
    /\ elapsed < watchdog.time
    /\ elapsed' = elapsed + 1
    /\ UNCHANGED <<ledger_vars, error_vars, holder_vars, runner_vars, notify_vars, warning_vars,
                   output_vars, matcher_vars, persistence_vars, program_vars, update_error,
                   watchdog, timer, updated>>

\* Timer.run: the wait timed out and the timer was not cancelled
timer_run ==
    /\ timer = "waiting"
    /\ elapsed = watchdog.time
    /\ timer' = "expired"
    /\ UNCHANGED <<ledger_vars, error_vars, holder_vars, runner_vars, notify_vars, warning_vars,
                   output_vars, matcher_vars, persistence_vars, program_vars, update_error,
                   watchdog, elapsed, updated>>

\* _check, without the test of the state
check_unconditional ==
    /\ timer = "expired"
    /\ timer' = "checked"
    /\ UNCHANGED <<ledger_vars, error_vars, holder_vars, runner_vars, notify_vars, warning_vars,
                   output_vars, matcher_vars, persistence_vars, program_vars, update_error,
                   watchdog, elapsed, updated>>

\* _check: the state of the instance is read
check ==
    /\ timer = "expired"
    /\ timer' = IF ~is_terminal(state(lifecycle)) THEN "checked" ELSE "finished"
    /\ UNCHANGED <<ledger_vars, error_vars, holder_vars, runner_vars, notify_vars, warning_vars,
                   output_vars, matcher_vars, persistence_vars, program_vars, update_error,
                   watchdog, elapsed, updated>>

\* _check: the warning is built and added
check_add_warning ==
    /\ timer = "checked"
    /\ add_warning(Warn(watchdog.name, [exceeded_sec |-> watchdog.time]))
    /\ timer' = "finished"
    /\ UNCHANGED <<ledger_vars, error_vars, holder_vars, runner_vars, notify_vars, output_vars,
                   matcher_vars, persistence_vars, program_vars, update_error,
                   watchdog, elapsed,
                   updated>>

\* The driving thread goes on once the watchdog has returned
NextWatchdog ==
    \/ \E s \in ExecutionState : create_latch(s)
    \/ release
    \/ stop
    \/ interrupt
    \/ start
    \/ (watchdog = None \/ updated = Len(transitions)) /\ run
    \/ \E time \in 1..MaxTime : exec_time_exceeded("exec_time", time)
    \/ state_update
    \/ sleep
    \/ timer_run
    \/ check
    \/ check_add_warning

SpecWatchdog == Init /\ [][NextWatchdog]_vars

\* The asynchronous driving sequence: TRIGGERED before the call of execute(),
\* STARTED when the start is confirmed, and the completion after that
async_trigger ==
    /\ pc = "idle"
    /\ state_change("TRIGGERED", None)
    /\ pc' = "triggered"
    /\ UNCHANGED <<error_vars, other_vars, latch, latch_wait_state, stopped_or_interrupted,
                   stop_called_at, released_at, executed_count, outcome>>

async_started ==
    /\ pc = "triggered"
    /\ state_change("STARTED", None)
    /\ pc' = "started"
    /\ UNCHANGED <<error_vars, other_vars, latch, latch_wait_state, stopped_or_interrupted,
                   stop_called_at, released_at, executed_count, outcome>>

async_finished(new_state) ==
    /\ pc = "started"
    /\ state_change(new_state, None)
    /\ pc' = "done"
    /\ UNCHANGED <<error_vars, other_vars, latch, latch_wait_state, stopped_or_interrupted,
                   stop_called_at, released_at, executed_count, outcome>>

async_run ==
    \/ async_trigger
    \/ async_started
    \/ \E s \in ReturnedStates : async_finished(s)

NextWatchdogAsync ==
    \/ (watchdog = None \/ updated = Len(transitions)) /\ async_run
    \/ \E time \in 1..MaxTime : exec_time_exceeded("exec_time", time)
    \/ state_update
    \/ sleep
    \/ timer_run
    \/ check
    \/ check_add_warning

SpecWatchdogAsync == Init /\ [][NextWatchdogAsync]_vars

-----------------------------------------------------------------------------
(* taro/jobs/warning.py: the output-pattern matcher _OutputMatchesWarning    *)

\* The characters of lines and patterns; a pattern is a literal
Alphabet == {"E", "x"}

Lines == UNION {[1..n -> Alphabet] : n \in 0..MaxLineLen}

Patterns == UNION {[1..n -> Alphabet] : n \in 0..MaxPattern}

\* re.match: the pattern at the start of the line only
search_anchored(regex, line) ==
    IF Len(regex) <= Len(line) /\ SubSeq(line, 1, Len(regex)) = regex THEN 1 ELSE 0

\* The scan of regex.search from position i: the first position the pattern
\* is found at, 0 for None
RECURSIVE search_from(_, _, _)
search_from(regex, line, i) ==
    IF i + Len(regex) - 1 > Len(line) THEN 0
    ELSE IF SubSeq(line, i, i + Len(regex) - 1) = regex THEN i
    ELSE search_from(regex, line, i + 1)

search(regex, line) == search_from(regex, line, 1)

\* output_matches(job_instance, warning_name, regex): the matcher becomes an
\* output observer of the instance
output_matches(warning_name, regex) ==
    /\ matcher = None
    /\ matcher' = [id |-> warning_name, regex |-> regex]
    /\ UNCHANGED <<ledger_vars, error_vars, holder_vars, runner_vars, notify_vars, warning_vars,
                   output_vars, watchdog_vars, persistence_vars, program_vars, output>>

\* _OutputMatchesWarning.output_update(_, output)
output_update(line) ==
    /\ matcher # None
    /\ Len(output) < MaxOutput
    /\ output' = Append(output, line)
    /\ IF search(matcher.regex, line) # 0
       THEN add_warning(Warn(matcher.id, [matches |-> line]))
       ELSE UNCHANGED warning_vars
    /\ UNCHANGED <<ledger_vars, error_vars, holder_vars, runner_vars, notify_vars, output_vars,
                   watchdog_vars, persistence_vars, program_vars, matcher>>

NextMatcher ==
    \/ \E regex \in Patterns : output_matches("output_matches", regex)
    \/ \E line \in Lines : output_update(line)

SpecMatcher == Init /\ [][NextMatcher]_vars

-----------------------------------------------------------------------------
(* taro/jobs/persistence.py: the facade, the PersistenceHolder cache and the *)
(* NoPersistence stub; the backend plugins are those of section 4.5          *)

MaxAges == {"", "P1D", "bogus"}

Cfgs == [persistence_enabled : BOOLEAN, persistence_type : Types,
         persistence_max_records : (-1)..MaxRecords, persistence_max_age : MaxAges]

PersistenceDisabledError == [type |-> "PersistenceDisabledError"]

PersistenceNotFoundError(module_) == [type |-> "PersistenceNotFoundError", module |-> module_]

TypeError(method) == [type |-> "TypeError", method |-> method]

\* util.parse_iso8601_duration: a duration, or ValueError for what is none
parse_iso8601_duration(s) ==
    IF s = "P1D" THEN [type |-> "timedelta", days |-> 1]
    ELSE [type |-> "ValueError", args |-> <<s>>]

\* The parameters a method of the class takes after self: those that may be
\* given by position, and those that are keyword-only
Signature(class, method) ==
    IF class = "NoPersistence"
    THEN CASE method = "read_jobs" ->
                  [params |-> <<>>, kwonly |-> {"id_", "sort", "asc", "limit"}]
           [] method = "store_job" -> [params |-> <<"job_info">>, kwonly |-> {}]
           [] method = "remove_job" -> [params |-> <<"id_">>, kwonly |-> {}]
           [] method = "clean_up" -> [params |-> <<>>, kwonly |-> {}]
    ELSE CASE method = "read_jobs" ->
                  [params |-> <<>>, kwonly |-> {"id_", "sort", "asc", "limit", "last"}]
           [] method = "store_job" -> [params |-> <<"job_info">>, kwonly |-> {}]
           [] method = "remove_job" -> [params |-> <<"id_">>, kwonly |-> {}]
           [] method = "clean_up" -> [params |-> <<"max_records", "max_age">>, kwonly |-> {}]

\* Python binds a call: no more positional arguments than parameters, and
\* every keyword names a parameter not already given by position
binds(sig, positional, keywords) ==
    /\ positional <= Len(sig.params)
    /\ \A k \in keywords :
           \/ k \in sig.kwonly
           \/ \E i \in (positional + 1)..Len(sig.params) : sig.params[i] = k

\* The backend's store after clean_up(max_records, max_age): the jobs older
\* than max_age go, then all but the max_records newest; a job's number is
\* the time it was created at and the newest job's the time of the call
backend_clean_up(jobs, max_records, max_age, today) ==
    LET young == IF max_age = None THEN jobs
                 ELSE SelectSeq(jobs, LAMBDA j : j >= today - max_age.days)
    IN  IF max_records < 0 \/ Len(young) <= max_records THEN young
        ELSE SubSeq(young, Len(young) - max_records + 1, Len(young))

\* The process as the facade sees and changes it
World == [cache |-> persistence, open |-> open_instances, peak |-> peak_open, db |-> db,
          stored |-> stored, instance |-> "", raised |-> None]

\* PersistenceHolder.close: every cached instance is closed, the cache cleared
holder_close(w) ==
    [w EXCEPT !.open = w.open - Cardinality(DOMAIN w.cache),
              !.cache = [key \in {} |-> ""]]

\* _load_persistence(type_)
load_persistence(w, type_) ==
    LET opened == [w EXCEPT !.open = w.open + 1,
                            !.peak = IF w.open + 1 > w.peak THEN w.open + 1 ELSE w.peak]
    IN  IF ~cfg.persistence_enabled THEN [opened EXCEPT !.instance = "NoPersistence"]
        ELSE IF type_ \in Installed THEN [opened EXCEPT !.instance = type_]
        ELSE [w EXCEPT !.raised = PersistenceNotFoundError(type_)]

\* __missing__ that does not close what is cached
missing_unclosed(w, key) ==
    LET loaded == load_persistence(w, key)
    IN  IF loaded.raised # None THEN loaded
        ELSE [loaded EXCEPT !.cache = [k \in DOMAIN loaded.cache \cup {key} |->
                                          IF k = key THEN loaded.instance
                                          ELSE loaded.cache[k]]]

\* PersistenceHolder.__missing__(key)
missing(w, key) ==
    LET loaded == load_persistence(holder_close(w), key)
    IN  IF loaded.raised # None THEN loaded
        ELSE [loaded EXCEPT !.cache = [k \in DOMAIN loaded.cache \cup {key} |->
                                          IF k = key THEN loaded.instance
                                          ELSE loaded.cache[k]]]

\* _instance(): _persistence[cfg.persistence_type]
instance(w) ==
    IF cfg.persistence_type \in DOMAIN w.cache
    THEN [w EXCEPT !.instance = w.cache[cfg.persistence_type]]
    ELSE missing(w, cfg.persistence_type)

\* instance.method(...) with the arguments the facade gives it
call(w, method, positional, keywords, arg) ==
    IF ~binds(Signature(w.instance, method), positional, keywords)
    THEN [w EXCEPT !.raised = TypeError(method)]
    ELSE IF w.instance = "NoPersistence" THEN [w EXCEPT !.raised = PersistenceDisabledError]
    ELSE CASE method = "read_jobs" -> w
           [] method = "store_job" ->
                  [w EXCEPT !.db[w.instance] = Append(@, arg),
                            !.stored[w.instance] = Append(@, arg)]
           [] method = "remove_job" ->
                  [w EXCEPT !.db[w.instance] = SelectSeq(@, LAMBDA j : j # arg),
                            !.stored[w.instance] = SelectSeq(@, LAMBDA j : j # arg)]
           [] method = "clean_up" ->
                  [w EXCEPT !.db[w.instance] =
                                backend_clean_up(@, arg.max_records, arg.max_age, job_seq)]

\* The facade's clean_up(): a max_age that does not parse ends it silently
facade_clean_up(w) ==
    LET max_age == IF cfg.persistence_max_age # ""
                   THEN parse_iso8601_duration(cfg.persistence_max_age)
                   ELSE None
        i == instance(w)
    IN  IF max_age.type = "ValueError" THEN w
        ELSE IF i.raised # None THEN i
        ELSE call(i, "clean_up", 2, {},
                  [max_records |-> cfg.persistence_max_records, max_age |-> max_age])

\* store_job without the clean_up after it
facade_store_job_only(w, job_info) ==
    LET i == instance(w)
    IN  IF i.raised # None THEN i ELSE call(i, "store_job", 1, {}, job_info)

\* The facade's store_job(job_info)
facade_store_job(w, job_info) ==
    LET i == instance(w)
        s == call(i, "store_job", 1, {}, job_info)
    IN  IF i.raised # None THEN i
        ELSE IF s.raised # None THEN s
        ELSE facade_clean_up(s)

\* The caller gets what the call raised; the process is as the call left it
returns(op, w) ==
    /\ persistence' = w.cache
    /\ open_instances' = w.open
    /\ peak_open' = w.peak
    /\ db' = w.db
    /\ stored' = w.stored
    /\ result' = [op |-> op, raised |-> w.raised]
    /\ UNCHANGED <<ledger_vars, error_vars, holder_vars, runner_vars, notify_vars, warning_vars,
                   output_vars, watchdog_vars, matcher_vars, program_vars, cfg>>

read_jobs ==
    /\ LET i == instance(World)
       IN  returns("read_jobs",
                   IF i.raised # None THEN i
                   ELSE call(i, "read_jobs", 0, {"id_", "sort", "asc", "limit", "last"}, None))
    /\ UNCHANGED job_seq

store_job ==
    /\ job_seq < MaxJobs
    /\ job_seq' = job_seq + 1
    /\ returns("store_job", facade_store_job(World, job_seq + 1))

remove_job(id_) ==
    /\ LET i == instance(World)
       IN  returns("remove_job",
                   IF i.raised # None THEN i ELSE call(i, "remove_job", 0, {"id_"}, id_))
    /\ UNCHANGED job_seq

clean_up ==
    /\ returns("clean_up", facade_clean_up(World))
    /\ UNCHANGED job_seq

close ==
    /\ returns("close", holder_close(World))
    /\ UNCHANGED job_seq

\* The configuration provider sets one of the values the facade reads
configure(key, value) ==
    /\ cfg[key] # value
    /\ cfg' = [cfg EXCEPT ![key] = value]
    /\ result' = [op |-> "none", raised |-> None]
    /\ stored' = IF key \in {"persistence_max_records", "persistence_max_age"}
                 THEN [type_ \in Installed |-> <<>>]
                 ELSE stored
    /\ UNCHANGED <<ledger_vars, error_vars, holder_vars, runner_vars, notify_vars, warning_vars,
                   output_vars, watchdog_vars, matcher_vars, program_vars, persistence,
                   open_instances, peak_open, db, job_seq>>

NextPersistence ==
    \/ read_jobs
    \/ store_job
    \/ \E id_ \in 1..MaxJobs : remove_job(id_)
    \/ clean_up
    \/ close
    \/ \E value \in BOOLEAN : configure("persistence_enabled", value)
    \/ \E value \in Types : configure("persistence_type", value)
    \/ \E value \in (-1)..MaxRecords : configure("persistence_max_records", value)
    \/ \E value \in MaxAges : configure("persistence_max_age", value)

SpecPersistence == Init /\ [][NextPersistence]_vars

-----------------------------------------------------------------------------
(* The facade called from two threads: each call is taken one step of       *)
(* persistence.py at a time, and the steps of the threads interleave; the   *)
(* module has no lock                                                       *)

\* facade calls each thread makes
MaxOps == 1

RuntimeError == [type |-> "RuntimeError"]

FacadeOps == {"read_jobs", "store_job", "close"}

thread_rest == <<ledger_vars, error_vars, runner_vars, notify_vars, warning_vars,
                 output_vars, watchdog_vars, matcher_vars, persistence_vars, program_vars>>

\* The thread leaves the facade: the call returned or raised
thread_return(t, error) ==
    [thread[t] EXCEPT !.pc = "idle", !.key = "", !.instance = 0, !.pos = 0, !.size = 0,
                      !.raised = error]

\* dict.__getitem__ of the holder
holder_has(key) == \E i \in 1..Len(holder) : holder[i].key = key

holder_get(key) == holder[CHOOSE i \in 1..Len(holder) : holder[i].key = key].instance

\* dict.__setitem__ of the holder
holder_set(key, inst) ==
    IF holder_has(key)
    THEN [i \in 1..Len(holder) |-> IF holder[i].key = key
                                   THEN [key |-> key, instance |-> inst]
                                   ELSE holder[i]]
    ELSE Append(holder, [key |-> key, instance |-> inst])

\* A thread calls read_jobs, store_job or close
thread_begin(t, op) ==
    /\ thread[t].pc = "idle"
    /\ thread[t].ops < MaxOps
    /\ thread' = [thread EXCEPT ![t] =
                      [IdleThread EXCEPT !.pc = IF op = "close" THEN "close" ELSE "lookup",
                                         !.op = op, !.ops = thread[t].ops + 1]]
    /\ UNCHANGED <<thread_rest, holder, instances>>

\* _instance(): _persistence[cfg.persistence_type]; a key that is not cached
\* enters __missing__
thread_getitem(t) ==
    /\ thread[t].pc = "lookup"
    /\ thread' = [thread EXCEPT ![t] =
                      IF holder_has(cfg.persistence_type)
                      THEN [@ EXCEPT !.pc = "call", !.key = cfg.persistence_type,
                                     !.instance = holder_get(cfg.persistence_type)]
                      ELSE [@ EXCEPT !.pc = "close", !.key = cfg.persistence_type]]
    /\ UNCHANGED <<thread_rest, holder, instances>>

\* PersistenceHolder.close: iter(self.values())
thread_close_iter(t) ==
    /\ thread[t].pc = "close"
    /\ thread' = [thread EXCEPT ![t] = [@ EXCEPT !.pc = "next", !.pos = 1,
                                                 !.size = Len(holder)]]
    /\ UNCHANGED <<thread_rest, holder, instances>>

\* The loop of close: the next cached instance is closed; a dict whose size
\* changed since the loop began raises RuntimeError
thread_close_next(t) ==
    /\ thread[t].pc = "next"
    /\ IF Len(holder) # thread[t].size
       THEN /\ thread' = [thread EXCEPT ![t] = thread_return(t, RuntimeError)]
            /\ UNCHANGED <<thread_rest, instances>>
       ELSE IF thread[t].pos > Len(holder)
       THEN /\ thread' = [thread EXCEPT ![t] = [@ EXCEPT !.pc = "clear"]]
            /\ UNCHANGED <<thread_rest, instances>>
       ELSE /\ instances' = [instances EXCEPT ![holder[thread[t].pos].instance].closed = TRUE]
            /\ thread' = [thread EXCEPT ![t] = [@ EXCEPT !.pos = @ + 1]]
    /\ UNCHANGED <<thread_rest, holder>>

\* self.clear(), after which close() returns and __missing__ goes on to load
thread_clear(t) ==
    /\ thread[t].pc = "clear"
    /\ holder' = <<>>
    /\ thread' = [thread EXCEPT ![t] = IF thread[t].op = "close"
                                       THEN thread_return(t, None)
                                       ELSE [@ EXCEPT !.pc = "load"]]
    /\ UNCHANGED <<thread_rest, instances>>

\* _load_persistence(key)
thread_load(t) ==
    /\ thread[t].pc = "load"
    /\ LET class == IF ~cfg.persistence_enabled THEN "NoPersistence" ELSE thread[t].key
       IN  IF cfg.persistence_enabled /\ thread[t].key \notin Installed
           THEN /\ thread' = [thread EXCEPT ![t] =
                                  thread_return(t, PersistenceNotFoundError(thread[t].key))]
                /\ UNCHANGED <<thread_rest, instances>>
           ELSE /\ instances' = Append(instances, [class |-> class, closed |-> FALSE])
                /\ thread' = [thread EXCEPT ![t] = [@ EXCEPT !.pc = "assign",
                                                             !.instance = Len(instances) + 1]]
    /\ UNCHANGED <<thread_rest, holder>>

\* self[key] = new_instance
thread_setitem(t) ==
    /\ thread[t].pc = "assign"
    /\ holder' = holder_set(thread[t].key, thread[t].instance)
    /\ thread' = [thread EXCEPT ![t] = [@ EXCEPT !.pc = "call"]]
    /\ UNCHANGED <<thread_rest, instances>>

\* The method of the instance runs and returns; store_job goes on to clean_up,
\* which looks the instance up again unless max_age does not parse
thread_call(t) ==
    /\ thread[t].pc = "call"
    /\ LET max_age == IF cfg.persistence_max_age # ""
                      THEN parse_iso8601_duration(cfg.persistence_max_age)
                      ELSE None
           raised == IF instances[thread[t].instance].class = "NoPersistence"
                     THEN PersistenceDisabledError
                     ELSE None
       IN  thread' = [thread EXCEPT ![t] =
                          IF thread[t].op = "store_job" /\ raised = None
                             /\ max_age.type # "ValueError"
                          THEN [@ EXCEPT !.pc = "lookup", !.op = "clean_up", !.key = "",
                                         !.instance = 0]
                          ELSE thread_return(t, raised)]
    /\ UNCHANGED <<thread_rest, holder, instances>>

NextThreads ==
    \/ \E t \in Threads, op \in FacadeOps : thread_begin(t, op)
    \/ \E t \in Threads : thread_getitem(t)
    \/ \E t \in Threads : thread_close_iter(t)
    \/ \E t \in Threads : thread_close_next(t)
    \/ \E t \in Threads : thread_clear(t)
    \/ \E t \in Threads : thread_load(t)
    \/ \E t \in Threads : thread_setitem(t)
    \/ \E t \in Threads : thread_call(t)
    \/ \E value \in BOOLEAN : configure("persistence_enabled", value)
    \/ \E value \in Types : configure("persistence_type", value)

SpecThreads == Init /\ [][NextThreads]_vars

-----------------------------------------------------------------------------
(* taro/jobs/program.py: ProgramExecution.execute, stop and interrupt, and  *)
(* the process it launches                                                  *)

\* The codes a process exits with: success, failure, killed by SIGTERM
ExitCodes == {0, 1, -15}

FileNotFoundError == [type |-> "FileNotFoundError"]

program_rest == <<ledger_vars, error_vars, holder_vars, runner_vars, notify_vars, warning_vars,
                  output_vars, watchdog_vars, matcher_vars, persistence_vars>>

\* execute(): ret_code = -1 and the test of the two flags
execute_begin ==
    /\ exec_pc = "idle"
    /\ ret_code' = -1
    /\ exec_pc' = IF ~stopped /\ ~interrupted THEN "launch" ELSE "after"
    /\ UNCHANGED <<program_rest, external, popen, launch_error, exit_code, waited, stopped,
                   interrupted, signalled, executed>>

\* Popen(...): the process runs, or the executable is not found
execute_launch(found) ==
    /\ exec_pc = "launch"
    /\ IF found
       THEN /\ popen' = "running"
            /\ exec_pc' = "wait"
            /\ UNCHANGED <<launch_error, executed>>
       ELSE /\ launch_error' = FileNotFoundError
            /\ executed' = [kind |-> "raised",
                            error |-> NewExecutionError("No such file", "FAILED", None,
                                                        NoKwargs)]
            /\ exec_pc' = "done"
            /\ UNCHANGED popen
    /\ UNCHANGED <<program_rest, external, exit_code, ret_code, waited, stopped, interrupted,
                   signalled>>

\* The process ends; SIGTERM ends only a process it was sent to
process_exit(code) ==
    /\ popen = "running"
    /\ code = -15 => signalled
    /\ popen' = "exited"
    /\ exit_code' = code
    /\ UNCHANGED <<program_rest, external, exec_pc, launch_error, ret_code, waited, stopped,
                   interrupted, signalled, executed>>

\* wait() returns whatever the code is and execute returns COMPLETED
execute_wait_any_code ==
    /\ exec_pc = "wait"
    /\ popen = "exited"
    /\ ret_code' = exit_code
    /\ waited' = TRUE
    /\ executed' = [kind |-> "returned", state |-> "COMPLETED"]
    /\ exec_pc' = "done"
    /\ UNCHANGED <<program_rest, external, popen, launch_error, exit_code, stopped, interrupted,
                   signalled>>

\* ret_code = self._popen.wait(), and COMPLETED for code 0
execute_wait ==
    /\ exec_pc = "wait"
    /\ popen = "exited"
    /\ ret_code' = exit_code
    /\ waited' = TRUE
    /\ IF exit_code = 0
       THEN /\ executed' = [kind |-> "returned", state |-> "COMPLETED"]
            /\ exec_pc' = "done"
       ELSE /\ exec_pc' = "after"
            /\ UNCHANGED executed
    /\ UNCHANGED <<program_rest, external, popen, launch_error, exit_code, stopped, interrupted,
                   signalled>>

\* KeyboardInterrupt raised in the try block
keyboard_interrupt ==
    /\ exec_pc \in {"launch", "wait"}
    /\ executed' = [kind |-> "returned", state |-> "STOPPED"]
    /\ external' = "KeyboardInterrupt"
    /\ exec_pc' = "done"
    /\ UNCHANGED <<program_rest, popen, launch_error, exit_code, ret_code, waited, stopped,
                   interrupted, signalled>>

\* SystemExit raised in the try block
system_exit ==
    /\ exec_pc \in {"launch", "wait"}
    /\ executed' = [kind |-> "raised",
                    error |-> NewExecutionError("System exit", "INTERRUPTED", None, NoKwargs)]
    /\ external' = "SystemExit"
    /\ exec_pc' = "done"
    /\ UNCHANGED <<program_rest, popen, launch_error, exit_code, ret_code, waited, stopped,
                   interrupted, signalled>>

\* The lines after the try block
execute_after ==
    /\ exec_pc = "after"
    /\ executed' = IF stopped THEN [kind |-> "returned", state |-> "STOPPED"]
                   ELSE IF interrupted THEN [kind |-> "returned", state |-> "INTERRUPTED"]
                   ELSE [kind |-> "raised",
                         error |-> NewExecutionError(<<"Process returned non-zero code ",
                                                       ret_code>>,
                                                     "FAILED", None, NoKwargs)]
    /\ exec_pc' = "done"
    /\ UNCHANGED <<program_rest, external, popen, launch_error, exit_code, ret_code, waited, stopped,
                   interrupted, signalled>>

\* terminate() signals a process that runs and does nothing to one that ended
terminate == signalled \/ popen = "running"

ProgramExecution_stop ==
    /\ stopped' = TRUE
    /\ signalled' = IF popen # "None" THEN terminate ELSE signalled
    /\ UNCHANGED <<program_rest, external, exec_pc, popen, launch_error, exit_code, ret_code, waited,
                   interrupted, executed>>

ProgramExecution_interrupt ==
    /\ interrupted' = TRUE
    /\ signalled' = IF popen # "None" THEN terminate ELSE signalled
    /\ UNCHANGED <<program_rest, external, exec_pc, popen, launch_error, exit_code, ret_code, waited,
                   stopped, executed>>

NextProgram ==
    \/ execute_begin
    \/ \E found \in BOOLEAN : execute_launch(found)
    \/ \E code \in ExitCodes : process_exit(code)
    \/ execute_wait
    \/ keyboard_interrupt
    \/ system_exit
    \/ execute_after
    \/ ProgramExecution_stop
    \/ ProgramExecution_interrupt

SpecProgram == Init /\ [][NextProgram]_vars

-----------------------------------------------------------------------------
(* Claims *)

Distinct(seq) == \A i, j \in 1..Len(seq) : i # j => seq[i] # seq[j]

Last(seq) == seq[Len(seq)]

Returned(s) == [kind |-> "returned", state |-> s]

\* C1: with no gate and no stop()/interrupt(), a run whose execute() returns
\* COMPLETED ends with the ledger exactly [CREATED, RUNNING, COMPLETED] and
\* state() = COMPLETED; until then the ledger is a prefix of it.
C1_StateChanges ==
    (latch = "none" /\ ~stopped_or_interrupted) =>
        /\ pc \notin {"done", "crashed"} =>
               states(lifecycle) \in {<<"CREATED">>, <<"CREATED", "RUNNING">>}
        /\ (pc = "done" /\ outcome = Returned("COMPLETED")) =>
               /\ states(lifecycle) = <<"CREATED", "RUNNING", "COMPLETED">>
               /\ state(lifecycle) = "COMPLETED"

C1_Witness ==
    /\ pc = "done"
    /\ latch = "none"
    /\ ~stopped_or_interrupted
    /\ outcome = Returned("COMPLETED")
    /\ executed_count = 1

C2_WhileBlocked ==
    (latch_wait_state = "PENDING" /\ latch = "unset") =>
        /\ "RUNNING" \notin {states(lifecycle)[i] : i \in 1..Len(lifecycle)}
        /\ (pc = "blocked" /\ ~stopped_or_interrupted) =>
               states(lifecycle) = <<"CREATED", "PENDING">>

C2_StaysBlocked ==
    (pc = "blocked" /\ latch' = "unset" /\ ~stopped_or_interrupted') =>
        (pc' = "blocked" /\ lifecycle' = lifecycle)

C2_AfterRelease ==
    (/\ pc = "done"
     /\ latch_wait_state = "PENDING"
     /\ latch # "none"
     /\ ~stopped_or_interrupted
     /\ outcome = Returned("COMPLETED")) =>
        states(lifecycle) = <<"CREATED", "PENDING", "RUNNING", "COMPLETED">>

\* C2: with a gate at PENDING the driving thread records PENDING and blocks:
\* while the gate is not released RUNNING is not in the ledger, and with no
\* stop requested the thread stays blocked with the ledger exactly
\* [CREATED, PENDING]; once the gate is released the run finishes, and with no
\* stop requested and execute() returning COMPLETED the ledger is exactly
\* [CREATED, PENDING, RUNNING, COMPLETED].
C2_Pending ==
    /\ [](C2_WhileBlocked /\ C2_AfterRelease)
    /\ [][C2_StaysBlocked]_vars
    /\ (pc = "blocked" /\ latch = "set") ~> (pc = "done")

C2_Witness ==
    /\ pc = "done"
    /\ latch_wait_state = "PENDING"
    /\ latch = "set"
    /\ ~stopped_or_interrupted
    /\ states(lifecycle) = <<"CREATED", "PENDING", "RUNNING", "COMPLETED">>

\* C3: when stop() is called before the driving thread starts run(), the run
\* records exactly [CREATED, CANCELLED]: the gate is skipped (its state is not
\* recorded, the thread never blocks), RUNNING is never recorded and execute()
\* is never called.
C3_CancellationBeforeStart ==
    (stop_called_at.pc = "idle") =>
        /\ pc \notin {"gate", "blocked", "pre_exec", "call", "executing", "crashed"}
        /\ executed_count = 0
        /\ pc # "done" => states(lifecycle) = <<"CREATED">>
        /\ pc = "done" => states(lifecycle) = <<"CREATED", "CANCELLED">>

C3_Witness ==
    /\ stop_called_at = [pc |-> "idle", latch |-> "unset"]
    /\ latch_wait_state = "PENDING"
    /\ pc = "done"
    /\ state(lifecycle) = "CANCELLED"

\* C4: when stop() is called while the driving thread is blocked on a PENDING
\* gate that is not yet released, the run ends with exactly
\* [CREATED, PENDING, CANCELLED]: RUNNING is never recorded and execute() is
\* never called.
C4_CancellationAfterStart ==
    (stop_called_at = [pc |-> "blocked", latch |-> "unset"] /\ latch_wait_state = "PENDING") =>
        /\ pc \in {"blocked", "checkpoint", "done"}
        /\ executed_count = 0
        /\ pc # "done" => states(lifecycle) = <<"CREATED", "PENDING">>
        /\ pc = "done" => states(lifecycle) = <<"CREATED", "PENDING", "CANCELLED">>

C4_Witness ==
    /\ stop_called_at = [pc |-> "blocked", latch |-> "unset"]
    /\ latch_wait_state = "PENDING"
    /\ latch = "set"
    /\ pc = "done"
    /\ states(lifecycle) = <<"CREATED", "PENDING", "CANCELLED">>

\* C5: when execute() raises an error that is no ExecutionError, the run still
\* ends normally, with ERROR as the current state and an ExecutionError
\* attached whose exec_state is ERROR and whose unexpected_error is the error
\* raised.
C5_UnexpectedError ==
    (outcome.kind = "raised" /\ outcome.error.type # "ExecutionError") =>
        /\ pc = "done"
        /\ state(lifecycle) = "ERROR"
        /\ exec_error.type = "ExecutionError"
        /\ exec_error.exec_state = "ERROR"
        /\ exec_error.unexpected_error = outcome.error

C5_Witness ==
    /\ outcome.kind = "raised"
    /\ outcome.error \in UnexpectedErrors
    /\ pc = "done"
    /\ exec_error.type = "ExecutionError"

\* C6: set_state calls with pairwise distinct states, none of them NONE, on a
\* ledger constructed empty: states() is the sequence of the calls and state()
\* its last element, NONE when there was no call.
C6_InsertionOrder ==
    (Distinct(calls) /\ \A i \in 1..Len(calls) : calls[i] \notin {"NONE", NoState}) =>
        /\ states(lifecycle) = calls
        /\ state(lifecycle) = IF calls = <<>> THEN "NONE" ELSE Last(calls)

C6_Witness ==
    /\ Len(calls) = MaxCalls
    /\ Distinct(calls)
    /\ \A i \in 1..Len(calls) : calls[i] \notin {"NONE", NoState}
    /\ states(lifecycle) = calls

\* C7: set_state with a state the ledger already holds, the current one or an
\* earlier one, leaves the ledger as it was: the same states in the same order
\* with the same timestamps.
C7_IdempotentInsert ==
    (calls # <<>> /\ has_key(prev, Last(calls))) => lifecycle = prev

\* C8: ExecutionError(...) yields an object exactly for START_FAILED, FAILED
\* and ERROR and raises ValueError for every other state; an object that
\* exists carries the state it was given, a state of the FAILURE group.
C8_FailureOnly ==
    (err # None) =>
        /\ err.type = "ExecutionError" <=> args.exec_state \in {"START_FAILED", "FAILED", "ERROR"}
        /\ err.type # "ExecutionError" => err = ValueError(args.exec_state)
        /\ err.type = "ExecutionError" =>
               /\ err.exec_state = args.exec_state
               /\ "FAILURE" \in groups(err.exec_state)

C8_Witness ==
    /\ err.type = "ValueError"
    /\ args.exec_state = "COMPLETED"

TerminalStates(lc) == {i \in 1..Len(lc) : is_terminal(lc[i].state)}

\* C9: once the current state is terminal the ledger does not change any more,
\* whatever stop(), interrupt() or release follows, and a ledger holds at most
\* one state of the TERMINAL group.
C9_TerminalIsFinal ==
    /\ [](Cardinality(TerminalStates(lifecycle)) <= 1)
    /\ [][is_terminal(state(lifecycle)) => lifecycle' = lifecycle]_vars

C9_Witness ==
    /\ is_terminal(state(lifecycle))
    /\ stop_called_at.pc = "done"
    /\ latch = "set"

\* C10: exec_error is set exactly when the current state is a terminal state
\* of the FAILURE group, and then its exec_state is the current state.
C10_ExecError ==
    /\ exec_error # None <=>
           (is_failure(state(lifecycle)) /\ is_terminal(state(lifecycle)))
    /\ exec_error # None => exec_error.exec_state = state(lifecycle)

C10_Witness ==
    /\ outcome.kind = "raised"
    /\ outcome.error.type = "ExecutionError"
    /\ exec_error = outcome.error
    /\ state(lifecycle) = "FAILED"

Registered(o) == \E i \in 1..Len(state_observers) : state_observers[i] = o

\* C11: every recorded transition has one snapshot, in recording order, and
\* every registered observer holds exactly the snapshots of the transitions
\* recorded since it registered, in that order, at the time the next
\* transition is recorded: none missing, repeated or out of order.
C11_NotificationOrder ==
    /\ Len(transitions) = Len(lifecycle)
    /\ \A n \in 1..Len(transitions) :
           /\ states(transitions[n].lifecycle) = SubSeq(states(lifecycle), 1, n)
           /\ \A i \in 1..n : transitions[n].lifecycle[i] = lifecycle[i]
    /\ \A o \in StateObservers :
           Registered(o) => notified[o] = SubSeq(transitions, joined[o] + 1, Len(transitions))

C11_Witness ==
    /\ pc = "done"
    /\ state_observers = <<"o2", "o1">>
    /\ joined["o1"] = 1
    /\ joined["o2"] = 1
    /\ Len(notified["o1"]) = 3
    /\ latch_wait_state = "PENDING"

Supported(o) == o \in {"listener", "callback", "failing", "exiting"}

\* C12: the Output-Reader thread never ends with an observer's error, and
\* when the loop for a line is over and the list was not changed meanwhile,
\* every listed observer of a supported shape was called with that line,
\* whatever the observers before it raised or were.
C12_ObserverIsolation ==
    /\ reader_pc # "crashed"
    /\ (reader_pc \in {"read", "finished"} /\ line_no > 0 /\ ~mutated) =>
           \A i \in 1..Len(output_observers) :
               Supported(output_observers[i]) =>
                   delivered[output_observers[i]] = count(output_observers, output_observers[i])

C12_Witness ==
    /\ reader_pc = "read"
    /\ line_no = 2
    /\ ~mutated
    /\ output_observers = <<"exiting", "callback">>
    /\ delivered["callback"] = 1
    /\ delivered["exiting"] = 1

\* C13: an observer is listed at most once however often it was added, is
\* called at most once with each line, and removing an observer that is not
\* listed raises nothing.
C13_SetLikeRegistry ==
    /\ \A o \in OutputObservers : count(output_observers, o) <= 1
    /\ \A o \in OutputObservers : delivered[o] <= 1
    /\ remove_error = None

\* C14: a watchdog with duration D gives no warning, ever, once the instance is
\* terminal while less than D has elapsed on its timer, and its timer no
\* longer waits once the terminal snapshot was handed to it; when its check
\* finds the instance not terminal it gives one warning whose exceeded_sec
\* is D; it never gives more than one warning.
C14_Watchdog ==
    /\ [](Len(warned) <= 1)
    /\ []((is_terminal(state(lifecycle)) /\ timer = "waiting" /\ elapsed < watchdog.time)
              => [](warned = <<>>))
    /\ []((watchdog # None /\ is_terminal(state(lifecycle)) /\ updated = Len(transitions))
              => timer # "waiting")
    /\ [][(timer = "expired" /\ ~is_terminal(state(lifecycle)) /\ timer' # timer)
              => timer' = "checked"]_vars
    /\ [][(timer = "checked" /\ timer' # timer)
              => /\ warned' = <<Warn(watchdog.name, [exceeded_sec |-> watchdog.time])>>
                 /\ warnings' = [n \in {watchdog.name} |-> 1]]_vars

C14_Witness ==
    /\ timer = "finished"
    /\ watchdog # None
    /\ watchdog.time = MaxTime
    /\ elapsed = MaxTime
    /\ warned = <<Warn("exec_time", [exceeded_sec |-> MaxTime])>>
    /\ state(lifecycle) = "COMPLETED"

\* C15: the watchdog never adds its warning to an instance whose state is
\* terminal at the moment of the addition.
C15_AtomicCheck == [][warned' # warned => ~is_terminal(state(lifecycle))]_vars

\* C16: the matcher has added one warning for each line given to it in
\* which its pattern occurs anywhere, in the order of the lines, and none for
\* any other line; the instance's count under the matcher's name is the
\* number of those lines.
Found(regex, line) ==
    \E i \in 1..(Len(line) + 1) :
        /\ i + Len(regex) - 1 <= Len(line)
        /\ \A k \in 1..Len(regex) : line[i + k - 1] = regex[k]

MatchingLines == SelectSeq(output, LAMBDA line : Found(matcher.regex, line))

C16_OutputMatches ==
    matcher # None =>
        /\ Len(warned) = Len(MatchingLines)
        /\ \A i \in 1..Len(warned) :
               warned[i] = Warn(matcher.id, [matches |-> MatchingLines[i]])
        /\ IF MatchingLines = <<>>
           THEN DOMAIN warnings = {}
           ELSE warnings = [n \in {matcher.id} |-> Len(MatchingLines)]

C16_Witness ==
    /\ matcher # None
    /\ matcher.regex = <<"E">>
    /\ output = << <<"x">>, <<"x", "E">> >>
    /\ warnings = [n \in {"output_matches"} |-> 1]

\* C17: with persistence configured disabled, read_jobs, store_job,
\* remove_job and clean_up of the facade each end in PersistenceDisabledError.
C17_DisabledErrors ==
    (/\ ~cfg.persistence_enabled
     /\ result.op \in {"read_jobs", "store_job", "remove_job", "clean_up"})
        => result.raised = PersistenceDisabledError

\* C18: at most one backend instance is open and at most one is cached, and
\* there never were two open at once: what is cached is closed and evicted
\* before another instance is instantiated.
C18_OneOpenInstance ==
    /\ open_instances <= 1
    /\ Cardinality(DOMAIN persistence) <= 1
    /\ peak_open <= 1

C18_Witness ==
    /\ DOMAIN persistence = {"other"}
    /\ persistence["other"] = "other"
    /\ db["sqlite"] # <<>>
    /\ open_instances = 1
    /\ result.op = "read_jobs"

\* C19: after store_job with max_records = K and no max_age, once more than
\* K jobs were stored, the store holds exactly the K most recent of them.
C19_Retention ==
    LET type_ == cfg.persistence_type
        K == cfg.persistence_max_records
    IN  (/\ result.op = "store_job"
         /\ result.raised = None
         /\ K >= 0
         /\ cfg.persistence_max_age = ""
         /\ Len(stored[type_]) > K)
            => db[type_] = SubSeq(stored[type_], Len(stored[type_]) - K + 1,
                                  Len(stored[type_]))

C19_Witness ==
    /\ result = [op |-> "store_job", raised |-> None]
    /\ cfg.persistence_type = "sqlite"
    /\ cfg.persistence_max_records = 1
    /\ cfg.persistence_max_age = ""
    /\ stored["sqlite"] = <<1, 2>>
    /\ db["sqlite"] = <<2>>

Failed(outcome_) ==
    /\ outcome_.kind = "raised"
    /\ outcome_.error.type = "ExecutionError"
    /\ outcome_.error.exec_state = "FAILED"

\* C20 as stated: when execute() has ended after launching, an exit with
\* code 0 gave COMPLETED and an exit with any other code gave an
\* ExecutionError of state FAILED; an executable not found gave an
\* ExecutionError of state FAILED.
C20_ExitCodes ==
    exec_pc = "done" =>
        /\ (waited /\ ret_code = 0) => executed = [kind |-> "returned", state |-> "COMPLETED"]
        /\ (waited /\ ret_code # 0) => Failed(executed)
        /\ launch_error = FileNotFoundError => Failed(executed)

\* C20 amended: an exit with code 0 gave COMPLETED; an exit with another code
\* gave an ExecutionError of state FAILED when neither stop() nor interrupt()
\* was called, and otherwise that or STOPPED after stop() or INTERRUPTED
\* after interrupt(); an executable not found gave an ExecutionError of state
\* FAILED.
C20_ExitCodesUnlessStopped ==
    exec_pc = "done" =>
        /\ (waited /\ ret_code = 0) => executed = [kind |-> "returned", state |-> "COMPLETED"]
        /\ (waited /\ ret_code # 0) =>
               /\ \/ Failed(executed)
                  \/ stopped /\ executed = [kind |-> "returned", state |-> "STOPPED"]
                  \/ interrupted /\ executed = [kind |-> "returned", state |-> "INTERRUPTED"]
               /\ (~stopped /\ ~interrupted) => Failed(executed)
        /\ launch_error = FileNotFoundError => Failed(executed)

C20_Witness ==
    /\ exec_pc = "done"
    /\ waited
    /\ ret_code = -15
    /\ stopped
    /\ executed = [kind |-> "returned", state |-> "STOPPED"]

\* C21: when execute() was ended by an interruption from outside during
\* launch or wait, it returned STOPPED (KeyboardInterrupt) or raised an
\* ExecutionError whose exec_state is INTERRUPTED (SystemExit), and nothing
\* else.
C21_ExternalInterruption ==
    (exec_pc = "done" /\ external # "none") =>
        \/ /\ external = "KeyboardInterrupt"
           /\ executed = [kind |-> "returned", state |-> "STOPPED"]
        \/ /\ external = "SystemExit"
           /\ executed.kind = "raised"
           /\ executed.error.type = "ExecutionError"
           /\ executed.error.exec_state = "INTERRUPTED"

\* C22: a stop() or interrupt() made before execute() leaves no process
\* launched and makes execute() return STOPPED, resp. INTERRUPTED; and a
\* process that runs after stop() or interrupt() was called has been sent a
\* termination request.
C22_StopEffects ==
    /\ ((stopped \/ interrupted) /\ popen = "running") => signalled
    /\ (exec_pc = "done" /\ popen = "None" /\ launch_error = None /\ external = "none") =>
           executed = [kind |-> "returned",
                       state |-> IF stopped THEN "STOPPED" ELSE "INTERRUPTED"]

\* C23: of the states set_state is called with (every state is), each but
\* NONE is in exactly one of BEFORE_EXECUTION, EXECUTING and TERMINAL, and
\* NONE is in no group; a terminal state is in at most one
\* of NOT_COMPLETED, NOT_EXECUTED and FAILURE, and a state that is not
\* terminal is in none of them.
C23_GroupPartition ==
    \A s \in {calls[i] : i \in 1..Len(calls)} \cap ExecutionState :
        LET phases == groups(s) \cap {"BEFORE_EXECUTION", "EXECUTING", "TERMINAL"}
            ends == groups(s) \cap {"NOT_COMPLETED", "NOT_EXECUTED", "FAILURE"}
        IN  /\ groups(s) \subseteq ExecutionStateGroup
            /\ IF s = "NONE" THEN groups(s) = {} ELSE Cardinality(phases) = 1
            /\ Cardinality(ends) <= 1
            /\ "TERMINAL" \notin groups(s) => ends = {}

C23_Witness ==
    /\ calls = <<"NONE", "RUNNING", "STOPPED">>
    /\ states(lifecycle) = <<"RUNNING", "STOPPED">>

ReleasedWhileBlockedThenStopped ==
    /\ latch_wait_state = "PENDING"
    /\ released_at = "blocked"
    /\ stop_called_at.latch = "set"

C25_NoContractViolation == update_error = None

\* C26: a copy of a lifecycle, made with copy or with deepcopy, reports the
\* ledger recorded up to the moment of copying whatever set_state does to the
\* original afterwards: states(), state() and changed() of the copy are those
\* of the original at the moment of copying
C26_CopyIndependent ==
    copied # None =>
        /\ states(copied_state_changes) = states(copied.original)
        /\ state(copied_state_changes) = state(copied.original)
        /\ \A i \in 1..Len(copied.original) :
               /\ has_key(copied_state_changes, copied.original[i].state)
               /\ changed(copied_state_changes, copied.original[i].state)
                      = changed(copied.original, copied.original[i].state)

\* The backend instances that are open, by their number in `instances`
open_backends ==
    {i \in 1..Len(instances) : instances[i].class \in Installed /\ ~instances[i].closed}

\* C27: access to the backend cache is serialized: while two threads run facade
\* operations at most one backend instance is open, and no backend instance is
\* closed while a thread holds it for the method call it is about to make
C27_Serialized ==
    /\ Cardinality(open_backends) <= 1
    /\ \A t \in Threads :
           (thread[t].pc = "call" /\ instances[thread[t].instance].class \in Installed)
               => ~instances[thread[t].instance].closed

\* A facade operation that uses the backend instance has just run under the
\* present configuration
BackendUsed ==
    \/ result.op \in {"read_jobs", "store_job", "remove_job"}
    \/ result.op = "clean_up" /\ cfg.persistence_max_age # "bogus"

\* C28: with persistence enabled and a configured name that matches no installed
\* plugin, a use of the facade fails with PersistenceNotFoundError, never with
\* the Disabled error, nothing is cached under the name, and the lookup has
\* closed and evicted every instance cached before, leaving the cache empty
C28_NotFound ==
    (cfg.persistence_enabled /\ cfg.persistence_type \notin Installed /\ BackendUsed) =>
        /\ result.raised = PersistenceNotFoundError(cfg.persistence_type)
        /\ result.raised # PersistenceDisabledError
        /\ persistence = [key \in {} |-> ""]
        /\ open_instances = 0

=============================================================================
